---- MODULE Spec2Model ----
(***************************************************************************)
(* A model of lib/mysql.js, the MySQL adapter of jugglingdb: the schema    *)
(* differ (alterTable), the schema synchronisation fan-out (autoupdate,    *)
(* isActual), the executor (query) and the statement builders (create,     *)
(* updateOrCreate, all with its where-compiler).                           *)
(***************************************************************************)
EXTENDS Integers, Sequences, FiniteSets, TLC

VARIABLES
    \* ---- schema differ (alterTable run against a live table) ----
    model,        \* this._models[model]: [properties, indexes]
    live,         \* the live table: [fields, indexes] as SHOW FIELDS / SHOW INDEXES report it
    liveBefore,   \* the live table the latest alterTable run has read
    emitted,      \* the fragment lists (sql) of the alterTable runs so far, oldest first
    \* ---- schema synchronisation (autoupdate / isActual) ----
    op,           \* the call in progress: "none", "autoupdate" or "isActual"
    registered,   \* Object.keys(this._models)
    chain,        \* per model: where its introspect-and-diff sequence stands
    wait,         \* the closure's counter of outstanding models
    ok,           \* isActual's closure variable ok, a JavaScript value
    cbCalls,      \* the calls of the aggregate callback cb so far, oldest first
    ddl,          \* the ALTER TABLE / CREATE TABLE statements sent to the database
    \* ---- executor and statement builders (query, create, updateOrCreate, all) ----
    filter,       \* the host's query filter object, passed to every all()
    data,         \* the host's data object, passed to every create() / updateOrCreate()
    calls         \* the adapter calls so far, oldest first, each with its progress

diffVars == <<model, live, liveBefore, emitted>>

syncVars == <<op, registered, chain, wait, ok, cbCalls, ddl>>

opVars == <<filter, data, calls>>

vars == <<diffVars, syncVars, opVars>>

-----------------------------------------------------------------------------
(* Bounds *)

\* alterTable runs per behaviour of the differ
MaxRuns == 2

\* registered models of a schema synchronisation
MaxModels == 2

\* adapter calls (query, create, updateOrCreate, all) per behaviour
MaxCalls == 2

-----------------------------------------------------------------------------
(* Generic helpers *)

\* sql.push(...) over a forEach: the pushed pieces, in iteration order
Concat(ss) ==
    LET c[i \in 0..Len(ss)] == IF i = 0 THEN <<>> ELSE c[i - 1] \o ss[i]
    IN  c[Len(ss)]

\* Array.prototype.indexOf(x) !== -1
Contains(s, x) == \E i \in 1..Len(s) : s[i] = x

\* Object.keys(o): the keys of o in insertion order; every object of the model
\* is populated in this order
NameOrder == <<"id", "a", "b", "x", "PRIMARY">>

Keys(o) == SelectSeq(NameOrder, LAMBDA n : n \in DOMAIN o)

-----------------------------------------------------------------------------
(* Column types *)

\* A column type text such as VARCHAR(255) is [base, len]; len = 0: no "(len)".
TypeText(base, len) == [base |-> base, len |-> len]

\* String.prototype.toUpperCase on a type text
toUpperCase(t) ==
    [t EXCEPT !.base = CASE @ = "varchar"  -> "VARCHAR"
                         [] @ = "int"      -> "INT"
                         [] @ = "text"     -> "TEXT"
                         [] @ = "datetime" -> "DATETIME"
                         [] @ = "tinyint"  -> "TINYINT"
                         [] @ = "point"    -> "POINT"
                         [] OTHER          -> @]

\* datatype(p); p.limit = 0 stands for no (falsy) limit
datatype(p) ==
    CASE p.type = "Text"    -> TypeText("TEXT", 0)
      [] p.type = "Number"  -> TypeText("INT", IF p.limit # 0 THEN p.limit ELSE 11)
      [] p.type = "Date"    -> TypeText("DATETIME", 0)
      [] p.type = "Boolean" -> TypeText("TINYINT", 1)
      [] p.type = "Point"   -> TypeText("POINT", 0)
      [] OTHER              -> TypeText("VARCHAR", IF p.limit # 0 THEN p.limit ELSE 255)

\* propertySettingsSQL(model, prop): datatype + ' ' + ('NOT NULL' | 'NULL');
\* p.notNull is (p.allowNull === false || p['null'] === false)
propertySettingsSQL(m, prop) ==
    LET p == m.properties[prop]
    IN  [dt |-> datatype(p), null |-> IF p.notNull THEN "NOT NULL" ELSE "NULL"]

-----------------------------------------------------------------------------
(* alterTable *)

\* m.properties[name] is truthy
PropOn(m, name) == name \in DOMAIN m.properties /\ m.properties[name].on

\* m.properties[name] && m.properties[name].index is truthy
PropIndexOn(m, name) == PropOn(m, name) /\ m.properties[name].index.on

\* propNames: Object.keys(m.properties) filtered by truthiness
propNames(m) == SelectSeq(Keys(m.properties), LAMBDA n : m.properties[n].on)

\* indexNames: Object.keys(m.settings.indexes) filtered by truthiness
indexNames(m) == SelectSeq(Keys(m.indexes), LAMBDA n : m.indexes[n].on)

\* i.columns.split(/,\s*/) on a column-list text held as its tokens
split(columns) == SelectSeq(columns, LAMBDA t : t \notin {",", ", "})

\* Object.keys(ai): the live index names in order of first appearance
aiNames(actualIndexes) ==
    IF ~actualIndexes.def THEN <<>>
    ELSE LET rows == actualIndexes.rows
             first(i) == \A j \in 1..(i - 1) : rows[j].Key_name # rows[i].Key_name
             idx == SelectSeq([i \in 1..Len(rows) |-> i], first)
         IN  [k \in 1..Len(idx) |-> rows[idx[k]].Key_name]

\* ai[name].columns[k - 1]: the Column_name of the last row of index name with
\* Seq_in_index = k, "undefined" for a hole or beyond the array
aiColumn(actualIndexes, name, k) ==
    LET rows == actualIndexes.rows
        hits == {i \in 1..Len(rows) : rows[i].Key_name = name /\ rows[i].Seq_in_index = k}
    IN  IF hits = {} THEN "undefined"
        ELSE rows[CHOOSE i \in hits : \A j \in hits : j <= i].Column_name

\* changed(newSettings, oldSettings)
changed(newSettings, oldSettings) ==
    \/ oldSettings.Null = "YES" /\ newSettings.notNull
    \/ oldSettings.Null = "NO" /\ ~newSettings.notNull
    \/ toUpperCase(oldSettings.Type) # datatype(newSettings)

Fragment(fop, name, def, columns, kind, using) ==
    [op |-> fop, name |-> name, def |-> def, columns |-> columns,
     kind |-> kind, using |-> using]

NoDef == [dt |-> TypeText("", 0), null |-> ""]

\* "change/add new fields": one property's contribution
changeOrAdd(m, actualFields, propName) ==
    IF propName = "id" THEN <<>>
    ELSE LET rows == IF actualFields.def THEN actualFields.rows ELSE <<>>
             hits == {i \in 1..Len(rows) : rows[i].Field = propName}
         IN  IF hits # {}
             THEN \* actualize(propName, found), found being the last match
                  LET found == rows[CHOOSE i \in hits : \A j \in hits : j <= i]
                  IN  IF PropOn(m, propName) /\ changed(m.properties[propName], found)
                      THEN <<Fragment("CHANGE COLUMN", propName,
                                      propertySettingsSQL(m, propName), <<>>, "", <<>>)>>
                      ELSE <<>>
             ELSE <<Fragment("ADD COLUMN", propName,
                             propertySettingsSQL(m, propName), <<>>, "", <<>>)>>

\* "drop columns": one live field's contribution
dropColumn(m, f) ==
    IF f.Field = "id" THEN <<>>
    ELSE IF ~Contains(propNames(m), f.Field) \/ ~PropOn(m, f.Field)
         THEN <<Fragment("DROP COLUMN", f.Field, NoDef, <<>>, "", <<>>)>>
         ELSE <<>>

\* the first test of "remove indexes": the live index is not declared, or it
\* bears the name of a property that declares no index
dropUndeclared(m, indexName) ==
    \/ ~Contains(indexNames(m), indexName) /\ ~PropOn(m, indexName)
    \/ PropOn(m, indexName) /\ ~m.properties[indexName].index.on

\* orderMatched of "remove indexes"
orderMatched(m, actualIndexes, indexName) ==
    IF Contains(indexNames(m), indexName)
    THEN LET cols == split(m.indexes[indexName].columns)
         IN  \A i \in 1..Len(cols) : aiColumn(actualIndexes, indexName, i) = cols[i]
    ELSE TRUE

\* the live indexes "remove indexes" deletes from ai (delete ai[indexName])
aiDeleted(m, actualIndexes) ==
    {n \in {aiNames(actualIndexes)[i] : i \in 1..Len(aiNames(actualIndexes))} :
        /\ n \notin {"id", "PRIMARY"}
        /\ ~dropUndeclared(m, n)
        /\ ~orderMatched(m, actualIndexes, n)}

\* "remove indexes": one live index's contribution
removeIndex(m, actualIndexes, indexName) ==
    IF indexName \in {"id", "PRIMARY"} THEN <<>>
    ELSE IF dropUndeclared(m, indexName)
         THEN <<Fragment("DROP INDEX", indexName, NoDef, <<>>, "", <<>>)>>
         ELSE IF ~orderMatched(m, actualIndexes, indexName)
              THEN <<Fragment("DROP INDEX", indexName, NoDef, <<>>, "", <<>>)>>
              ELSE <<>>

\* found = ai[name] && ai[name].info, after the deletions of "remove indexes"
aiFound(m, actualIndexes, name) ==
    /\ Contains(aiNames(actualIndexes), name)
    /\ name \notin aiDeleted(m, actualIndexes)

\* "add single-column indexes": one property's contribution (kind stays '')
addSingleIndex(m, actualIndexes, propName) ==
    LET i == m.properties[propName].index
    IN  IF ~i.on THEN <<>>
        ELSE IF ~aiFound(m, actualIndexes, propName)
             THEN <<Fragment("ADD INDEX", propName, NoDef, <<propName>>, "",
                             IF i.type # "" THEN <<"USING", i.type>> ELSE <<>>)>>
             ELSE <<>>

\* "add multi-column indexes": one declared index's contribution
addMultiIndex(m, actualIndexes, indexName) ==
    LET i == m.indexes[indexName]
    IN  IF ~aiFound(m, actualIndexes, indexName)
        THEN <<Fragment("ADD INDEX", indexName, NoDef, i.columns, i.kind,
                        IF i.type # "" THEN <<"USING", i.type>> ELSE <<>>)>>
        ELSE <<>>

\* the fragment list sql that alterTable builds
alterTable(m, actualFields, actualIndexes) ==
    LET pn == propNames(m)
        xn == indexNames(m)
        an == aiNames(actualIndexes)
        fr == IF actualFields.def THEN actualFields.rows ELSE <<>>
    IN  Concat([i \in 1..Len(pn) |-> changeOrAdd(m, actualFields, pn[i])])
        \o Concat([i \in 1..Len(fr) |-> dropColumn(m, fr[i])])
        \o Concat([i \in 1..Len(an) |-> removeIndex(m, actualIndexes, an[i])])
        \o Concat([i \in 1..Len(pn) |-> addSingleIndex(m, actualIndexes, pn[i])])
        \o Concat([i \in 1..Len(xn) |-> addMultiIndex(m, actualIndexes, xn[i])])

-----------------------------------------------------------------------------
(* The database's side of ALTER TABLE: what SHOW FIELDS / SHOW INDEXES report
   after the statement ran *)

\* MySQL reports column types in lower case
reportedType(t) ==
    [t EXCEPT !.base = CASE @ = "VARCHAR"  -> "varchar"
                         [] @ = "INT"      -> "int"
                         [] @ = "TEXT"     -> "text"
                         [] @ = "DATETIME" -> "datetime"
                         [] @ = "TINYINT"  -> "tinyint"
                         [] @ = "POINT"    -> "point"
                         [] OTHER          -> @]

FieldRow(name, def) ==
    [Field |-> name, Type |-> reportedType(def.dt),
     Null |-> IF def.null = "NOT NULL" THEN "NO" ELSE "YES"]

IndexRows(name, cols) ==
    [k \in 1..Len(cols) |-> [Key_name |-> name, Seq_in_index |-> k, Column_name |-> cols[k]]]

\* one fragment applied to the live table
applyFragment(t, f) ==
    CASE f.op = "ADD COLUMN" ->
            [t EXCEPT !.fields = Append(@, FieldRow(f.name, f.def))]
      [] f.op = "CHANGE COLUMN" ->
            [t EXCEPT !.fields = [i \in 1..Len(@) |->
                IF @[i].Field = f.name THEN FieldRow(f.name, f.def) ELSE @[i]]]
      [] f.op = "DROP COLUMN" ->
            [t EXCEPT !.fields = SelectSeq(@, LAMBDA r : r.Field # f.name)]
      [] f.op = "DROP INDEX" ->
            [t EXCEPT !.indexes = SelectSeq(@, LAMBDA r : r.Key_name # f.name)]
      [] f.op = "ADD INDEX" ->
            [t EXCEPT !.indexes = @ \o IndexRows(f.name, split(f.columns))]

\* ALTER TABLE t <fragments>: the fragments applied in order
applyAlter(t, frags) ==
    LET a[i \in 0..Len(frags)] == IF i = 0 THEN t ELSE applyFragment(a[i - 1], frags[i])
    IN  a[Len(frags)]

-----------------------------------------------------------------------------
(* Inputs of the differ *)

NoIndex == [on |-> FALSE, type |-> ""]

Prop(type, limit, notNull, index) ==
    [on |-> TRUE, type |-> type, limit |-> limit, notNull |-> notNull, index |-> index]

\* a property registered and then disabled (a falsy m.properties[name])
PropOff == [on |-> FALSE, type |-> "", limit |-> 0, notNull |-> FALSE, index |-> NoIndex]

Index(columns, type, kind) ==
    [on |-> TRUE, columns |-> columns, type |-> type, kind |-> kind]

IndexOff == [on |-> FALSE, columns |-> <<>>, type |-> "", kind |-> ""]

\* a partial object: the keys whose choice is not "absent"
Obj(choice) == [n \in {k \in DOMAIN choice : choice[k] # <<>>} |-> choice[n][1]]

PropChoicesA ==
    {<<>>, <<PropOff>>}
    \cup {<<Prop(t, 0, nn, ix)>> : t \in {"String", "Number"}, nn \in BOOLEAN,
                                   ix \in {NoIndex, [on |-> TRUE, type |-> ""]}}

PropChoicesB ==
    {<<>>, <<Prop("String", 0, FALSE, NoIndex)>>,
     <<Prop("Number", 9, TRUE, [on |-> TRUE, type |-> "BTREE"])>>}

IndexChoicesA ==
    {<<>>, <<Index(<<"a", ", ", "b">>, "", "")>>, <<Index(<<"b", ",", "a">>, "", "")>>}

IndexChoicesX ==
    {<<>>, <<IndexOff>>, <<Index(<<"a", ", ", "b">>, "BTREE", "UNIQUE")>>}

idProp == Prop("Number", 0, FALSE, NoIndex)

\* index names are unique per table: no enabled composite index shares its name
\* with a property that declares a single-column index
WellFormed(m) ==
    \A n \in DOMAIN m.indexes : m.indexes[n].on => ~PropIndexOn(m, n)

ModelSchemas ==
    {m \in {[properties |-> Obj([id |-> <<idProp>>, a |-> pa, b |-> pb]),
             indexes |-> Obj([a |-> ia, x |-> ix])] :
                pa \in PropChoicesA, pb \in PropChoicesB,
                ia \in IndexChoicesA, ix \in IndexChoicesX} : WellFormed(m)}

LiveFieldChoicesA ==
    {<<>>, <<FieldRow("a", [dt |-> TypeText("VARCHAR", 255), null |-> "NULL"])>>,
     <<FieldRow("a", [dt |-> TypeText("VARCHAR", 255), null |-> "NOT NULL"])>>,
     <<FieldRow("a", [dt |-> TypeText("INT", 11), null |-> "NULL"])>>}

LiveFieldChoicesB ==
    {<<>>, <<FieldRow("b", [dt |-> TypeText("VARCHAR", 255), null |-> "NULL"])>>}

idField == FieldRow("id", [dt |-> TypeText("INT", 11), null |-> "NOT NULL"])

LiveIndexChoicesA ==
    {<<>>, IndexRows("a", <<"a">>), IndexRows("a", <<"a", "b">>), IndexRows("a", <<"b", "a">>)}

LiveIndexChoicesB == {<<>>, IndexRows("b", <<"b">>)}

LiveIndexChoicesX ==
    {<<>>, IndexRows("x", <<"a", "b">>), IndexRows("x", <<"b", "a">>), IndexRows("x", <<"a">>),
     IndexRows("x", <<"a", "b", "id">>)}

\* a secondary index that bears the name id
LiveIndexChoicesId == {<<>>, IndexRows("id", <<"id">>)}

LiveTables ==
    {[fields |-> <<idField>> \o fa \o fb,
      indexes |-> IndexRows("PRIMARY", <<"id">>) \o ii \o ia \o ib \o ix] :
        fa \in LiveFieldChoicesA, fb \in LiveFieldChoicesB, ii \in LiveIndexChoicesId,
        ia \in LiveIndexChoicesA, ib \in LiveIndexChoicesB, ix \in LiveIndexChoicesX}

Defined(rows) == [def |-> TRUE, rows |-> rows]

Undefined == [def |-> FALSE, rows |-> <<>>]

-----------------------------------------------------------------------------
(* JavaScript values and SQL text.  A text is the sequence of its pieces; the
   quote, the backslash and the separators are pieces of their own. *)

Val(t, s, o, arr) == [t |-> t, s |-> s, op |-> o, arr |-> arr]

Str(s) == Val("str", s, "", <<>>)

Num(n) == Val("num", <<n>>, "", <<>>)

Bool(b) == Val("bool", <<b>>, "", <<>>)

\* a Date, by its UTC year, month (1-12), day, hours, minutes, seconds
DateVal(parts) == Val("date", parts, "", <<>>)

JsNull == Val("null", <<>>, "", <<>>)

JsUndefined == Val("undefined", <<>>, "", <<>>)

Arr(elems) == Val("array", <<>>, "", elems)

\* an operator object {o: operand}
OpObj(o, operand) == Val("obj", <<>>, o, <<operand>>)

\* Array.prototype.join(sep) on texts
join(texts, sep) ==
    Concat([i \in 1..Len(texts) |-> IF i = 1 THEN texts[i] ELSE <<sep>> \o texts[i]])

\* the text of a value in a string concatenation ('' + v); an array joins its
\* elements by ",", null and undefined elements as ''
toString(v) ==
    CASE v.t = "undefined" -> <<"undefined">>
      [] v.t = "null"      -> <<"null">>
      [] v.t = "array"     -> join([i \in 1..Len(v.arr) |->
                                       IF v.arr[i].t \in {"null", "undefined"}
                                       THEN <<>> ELSE v.arr[i].s], ",")
      [] v.t = "obj"       -> <<"[object Object]">>
      [] OTHER             -> v.s

\* a value is truthy
truthy(v) ==
    CASE v.t \in {"null", "undefined"} -> FALSE
      [] v.t = "str"  -> v.s # <<>>
      [] v.t = "num"  -> v.s \notin {<<"0">>, <<"NaN">>}
      [] v.t = "bool" -> v.s = <<"true">>
      [] OTHER        -> TRUE

NumericTexts == {<<"0">>, <<"1">>, <<"2">>, <<"5">>, <<"7">>, <<"10">>}

\* Number(val)
Number(v) ==
    CASE v.t = "num"  -> v
      [] v.t = "bool" -> IF truthy(v) THEN Num("1") ELSE Num("0")
      [] v.t = "null" -> Num("0")
      [] v.t = "str"  -> IF v.s = <<>> THEN Num("0")
                         ELSE IF v.s \in NumericTexts THEN Val("num", v.s, "", <<>>)
                         ELSE Num("NaN")
      [] OTHER        -> Num("NaN")

\* SqlString.escape(val, false, timezone) of ./protocol/SqlString.js: NULL for
\* null and undefined, the bare text of a number or boolean, and a string in
\* single quotes with every quote and backslash preceded by a backslash
escape(v) ==
    CASE v.t \in {"null", "undefined"} -> Str(<<"NULL">>)
      [] v.t \in {"num", "bool"}       -> Str(v.s)
      [] OTHER -> Str(<<"'">>
                      \o Concat([i \in 1..Len(toString(v)) |->
                                    IF toString(v)[i] \in {"'", "\\"}
                                    THEN <<"\\", toString(v)[i]>>
                                    ELSE <<toString(v)[i]>>])
                      \o <<"'">>)

\* fillZeros(v) of dateToMysql
fillZeros(v) ==
    IF v \in {"0", "1", "2", "3", "4", "5", "6", "7", "8", "9"} THEN <<"0", v>> ELSE <<v>>

\* dateToMysql(val)
dateToMysql(val) ==
    <<val.s[1], "-">> \o fillZeros(val.s[2]) \o <<"-">> \o fillZeros(val.s[3]) \o <<" ">>
    \o fillZeros(val.s[4]) \o <<":">> \o fillZeros(val.s[5]) \o <<":">> \o fillZeros(val.s[6])

\* new Date(val) for a val that is no Date: only Dates are dates here
newDate(val) ==
    IF val.t = "date" THEN val ELSE DateVal(<<"NaN", "NaN", "NaN", "NaN", "NaN", "NaN">>)

\* toDatabase past its operator-object branch, lines 158-168
toDatabaseScalar(prop, val) ==
    IF ~prop.on THEN val
    ELSE IF prop.type = "Number" THEN Number(val)
    ELSE IF prop.type = "Date"
         THEN IF ~truthy(val) THEN Str(<<"NULL">>)
              ELSE Str(<<"\"">> \o dateToMysql(newDate(val)) \o <<"\"">>)
    ELSE IF prop.type = "Boolean" THEN IF truthy(val) THEN Num("1") ELSE Num("0")
    ELSE escape(Str(toString(val)))

\* the array test of the inq / nin branch, line 148
isArray(val) == val.t = "array"

\* the in-place loop of the inq / nin branch: val[i] = SqlString.escape(val[i])
escapeElements(val) == [val EXCEPT !.arr = [i \in 1..Len(@) |-> escape(@[i])]]

\* toDatabase(prop, val): ret is what it returns, arg the object val refers to
\* as the call leaves it
RECURSIVE toDatabase(_, _)
toDatabase(prop, val) ==
    IF val.t = "null" THEN [ret |-> Str(<<"NULL">>), arg |-> val]
    ELSE IF val.t = "undefined" THEN [ret |-> JsUndefined, arg |-> val]
    ELSE IF val.t = "obj"
    THEN LET operand == val.arr[1]
         IN  IF val.op = "between"
             THEN LET lo == IF Len(operand.arr) >= 1 THEN operand.arr[1] ELSE JsUndefined
                      hi == IF Len(operand.arr) >= 2 THEN operand.arr[2] ELSE JsUndefined
                  IN  [ret |-> Str(toString(toDatabase(prop, lo).ret) \o <<" AND ">>
                                   \o toString(toDatabase(prop, hi).ret)),
                       arg |-> val]
             ELSE IF val.op \in {"inq", "nin"}
             THEN IF isArray(operand)
                  THEN [ret |-> Str(toString(escapeElements(operand))),
                        arg |-> [val EXCEPT !.arr = <<escapeElements(operand)>>]]
                  ELSE [ret |-> operand, arg |-> val]
             ELSE [ret |-> toDatabaseScalar(prop, operand), arg |-> val]
    ELSE [ret |-> toDatabaseScalar(prop, val), arg |-> val]

-----------------------------------------------------------------------------
(* The host's objects *)

\* a query filter; where is the sequence of the [key, val] entries of
\* filter.where in insertion order, order the filter.order items
Filter(where, order, limit, skip) ==
    [def |-> TRUE, where |-> where, order |-> order, limit |-> limit, skip |-> skip]

NoConds == [def |-> FALSE, conds |-> <<>>]

Conds(entries) == [def |-> TRUE, conds |-> entries]

NoOrder == [def |-> FALSE, isString |-> FALSE, items |-> <<>>]

Entry(key, val) == [key |-> key, val |-> val]

\* all(model, undefined, callback)
NoFilter ==
    [def |-> FALSE, where |-> NoConds, order |-> NoOrder,
     limit |-> JsUndefined, skip |-> JsUndefined]

\* no adapter call is made
OpsIdle ==
    /\ filter = NoFilter
    /\ data = <<>>
    /\ calls = <<>>

-----------------------------------------------------------------------------
(* The differ as a state machine: alterTable on the live table, then the
   emitted ALTER TABLE applied by the database *)

\* no schema synchronisation is in progress and no model is registered for one
SyncIdle ==
    /\ op = "none"
    /\ registered = {}
    /\ chain = <<>>
    /\ wait = 0
    /\ ok = "false"
    /\ cbCalls = <<>>
    /\ ddl = {}

InitDiff ==
    /\ model \in ModelSchemas
    /\ live \in LiveTables
    /\ liveBefore = live
    /\ emitted = <<>>
    /\ SyncIdle
    /\ OpsIdle

\* alterTable(model, fields, indexes, done) with the fields and indexes the
\* table has, and its ALTER TABLE statement run by the database
AlterTable ==
    /\ Len(emitted) < MaxRuns
    /\ LET sql == alterTable(model, Defined(live.fields), Defined(live.indexes))
       IN  /\ emitted' = Append(emitted, sql)
           /\ liveBefore' = live
           /\ live' = applyAlter(live, sql)
    /\ UNCHANGED <<model, syncVars, opVars>>

NextDiff == AlterTable

SpecDiff == InitDiff /\ [][NextDiff]_vars

-----------------------------------------------------------------------------
(* C1, C2: properties of the differ *)

HasFragment(sql, fop, name) == \E i \in 1..Len(sql) : sql[i].op = fop /\ sql[i].name = name

\* C1: the fragments of a run applied to the live table, the next run emits no
\* fragment at all.
C1_Idempotent == \A k \in 2..Len(emitted) : emitted[k] = <<>>

\* the live index x exists and differs from the declared composite index x at
\* some declared position
OrderMismatch(m, t, x) ==
    /\ Contains(indexNames(m), x)
    /\ \E i \in 1..Len(t.indexes) : t.indexes[i].Key_name = x
    /\ LET cols == split(m.indexes[x].columns)
       IN  \E k \in 1..Len(cols) : aiColumn(Defined(t.indexes), x, k) # cols[k]

\* C2: a declared composite index that is live under its name with a column
\* that differs at some position gets both a DROP INDEX and an ADD INDEX
\* fragment in the run that reads that live table.
C2_ReorderDropsAndAdds ==
    Len(emitted) >= 1 =>
        \A x \in DOMAIN model.indexes :
            (Len(emitted) = 1 /\ OrderMismatch(model, liveBefore, x)) =>
                /\ HasFragment(emitted[1], "DROP INDEX", x)
                /\ HasFragment(emitted[1], "ADD INDEX", x)

\* the names of the live indexes of table t
LiveIndexNames(t) == {t.indexes[i].Key_name : i \in 1..Len(t.indexes)}

\* the column sequence of the live index x of table t, by Seq_in_index
LiveColumns(t, x) ==
    LET rows == SelectSeq(t.indexes, LAMBDA r : r.Key_name = x)
    IN  [k \in 1..Len(rows) |->
            rows[CHOOSE i \in 1..Len(rows) : rows[i].Seq_in_index = k].Column_name]

\* every enabled declared property other than id has a live column of its name
\* with the declared nullability and native type
ColumnsDeclaredAreLive(m, t) ==
    \A n \in DOMAIN m.properties :
        (n # "id" /\ PropOn(m, n)) =>
            \E i \in 1..Len(t.fields) :
                /\ t.fields[i].Field = n
                /\ t.fields[i].Null = (IF m.properties[n].notNull THEN "NO" ELSE "YES")
                /\ t.fields[i].Type = reportedType(datatype(m.properties[n]))

\* every live column other than id is an enabled declared property
ColumnsLiveAreDeclared(m, t) ==
    \A i \in 1..Len(t.fields) :
        t.fields[i].Field # "id" => PropOn(m, t.fields[i].Field)

\* every declared single-column and composite index exists live
IndexesDeclaredAreLive(m, t) ==
    /\ \A n \in DOMAIN m.properties : PropIndexOn(m, n) => n \in LiveIndexNames(t)
    /\ \A x \in DOMAIN m.indexes : m.indexes[x].on => x \in LiveIndexNames(t)

\* every live index other than the primary key is declared
IndexesLiveAreDeclared(m, t) ==
    \A x \in LiveIndexNames(t) \ {"PRIMARY"} :
        PropIndexOn(m, x) \/ Contains(indexNames(m), x)

\* every declared composite index that is live has exactly the declared column
\* sequence
CompositeColumnsExact(m, t) ==
    \A x \in DOMAIN m.indexes :
        (m.indexes[x].on /\ x \in LiveIndexNames(t)) =>
            LiveColumns(t, x) = split(m.indexes[x].columns)

SchemaMatches(m, t) ==
    /\ ColumnsDeclaredAreLive(m, t)
    /\ ColumnsLiveAreDeclared(m, t)
    /\ IndexesDeclaredAreLive(m, t)
    /\ IndexesLiveAreDeclared(m, t)
    /\ CompositeColumnsExact(m, t)

\* C11: a run of alterTable emits the empty fragment list only if the live
\* table it read matches the declared schema: columns, nullability and type,
\* indexes in both directions, and the exact column sequence of every declared
\* composite index.
C11_EmptyOnlyIfMatching ==
    (Len(emitted) >= 1 /\ emitted[Len(emitted)] = <<>>) =>
        SchemaMatches(model, liveBefore)

-----------------------------------------------------------------------------
(* Schema synchronisation: autoupdate and isActual.  JavaScript runs each
   handler to completion, and the driver's callbacks (pool.getConnection,
   connection.query) run later, one at a time, in any order. *)

\* the schema every registered model declares in a synchronisation
SyncSchema ==
    [properties |-> Obj([id |-> <<idProp>>, a |-> <<Prop("String", 0, FALSE, NoIndex)>>]),
     indexes |-> <<>>]

\* what a successful SHOW FIELDS may return: no row, the declared columns, or
\* a table that lacks column a
FieldsResults ==
    {<<>>,
     <<idField, FieldRow("a", [dt |-> TypeText("VARCHAR", 255), null |-> "NULL"])>>,
     <<idField>>}

\* what a successful SHOW INDEXES may return
IndexesResults == {IndexRows("PRIMARY", <<"id">>)}

Results(stage) ==
    CASE stage = "fields"  -> {Defined(r) : r \in FieldsResults}
      [] stage = "indexes" -> {Defined(r) : r \in IndexesResults}
      [] OTHER             -> {Defined(<<>>)}

\* the differ's variables when the differ is not the subject
DiffIdle ==
    /\ model = SyncSchema
    /\ live = [fields |-> <<>>, indexes |-> <<>>]
    /\ liveBefore = live
    /\ emitted = <<>>

Link(stage, q, fields, diff) == [stage |-> stage, q |-> q, fields |-> fields, diff |-> diff]

InitSync ==
    /\ DiffIdle
    /\ op = "none"
    /\ registered \in {1..n : n \in 0..MaxModels}
    /\ chain = [k \in registered |-> Link("idle", "", Undefined, "none")]
    /\ wait = 0
    /\ ok = "false"
    /\ cbCalls = <<>>
    /\ ddl = {}
    /\ OpsIdle

\* a JavaScript value is truthy; the values in play are "true", "false",
\* "null" and "undefined"
Truthy(v) == v = "true"

\* a || b
JsOr(a, b) == IF Truthy(a) THEN a ELSE b

\* !a
JsNot(a) == IF Truthy(a) THEN "false" ELSE "true"

\* a done that calls cb without consulting the counter
lastDoneUncounted(w) == TRUE

\* --wait === 0
lastDone(w) == w - 1 = 0

\* ok = needAlter: the latest model's answer replaces the earlier ones
aggregateLatest(o, needAlter) == needAlter

\* ok = ok || needAlter
aggregate(o, needAlter) == JsOr(o, needAlter)

\* done(err) of autoupdate, done(err, needAlter) of isActual, for model k whose
\* chain becomes c
done(k, c, needAlter) ==
    /\ chain' = [chain EXCEPT ![k] = c]
    /\ wait' = wait - 1
    /\ ok' = IF op = "isActual" THEN aggregate(ok, needAlter) ELSE ok
    /\ cbCalls' = IF lastDone(wait)
                  THEN Append(cbCalls,
                              IF op = "isActual"
                              THEN [err |-> "null",
                                    res |-> JsNot(aggregate(ok, needAlter))]
                              ELSE [err |-> "undefined", res |-> "undefined"])
                  ELSE cbCalls

\* what alterTable does with a non-empty sql in check-only mode: TRUE when it
\* reports through done without executing
reportsOnly(checkOnly) == checkOnly

\* alterTable(model, fields, indexes, done, checkOnly), lines 498-507
alterTableCall(k, fields, indexes, checkOnly) ==
    LET sql == alterTable(model, fields, indexes)
    IN  IF Len(sql) > 0
        THEN IF reportsOnly(checkOnly)
             THEN done(k, Link("done", "", Undefined, "nonempty"), "true")
             ELSE \* this.query(query, done)
                  /\ chain' = [chain EXCEPT ![k] = Link("alter", "pool", Undefined, "nonempty")]
                  /\ UNCHANGED <<wait, ok, cbCalls>>
        ELSE done(k, Link("done", "", Undefined, "empty"), "undefined")

\* createTable(model, done) of the base adapter: this.query('CREATE TABLE ...', done)
createTableCall(k) ==
    /\ chain' = [chain EXCEPT ![k] = Link("create", "pool", Undefined, chain[k].diff)]
    /\ UNCHANGED <<wait, ok, cbCalls>>

\* the callback of the SHOW FIELDS query: it keeps fields and queries the indexes
fieldsCallback(k, result) ==
    /\ chain' = [chain EXCEPT ![k] = Link("indexes", "pool", result, "none")]
    /\ UNCHANGED <<wait, ok, cbCalls>>

\* the callback of the SHOW INDEXES query; err is its own err, fields the
\* enclosing callback's
indexesCallback(k, err, result) ==
    LET fields == chain[k].fields
    IN  IF op = "autoupdate"
        THEN IF err = "null"
             THEN IF ~fields.def
                  THEN \* fields.length of undefined: a TypeError leaves the callback
                       /\ chain' = [chain EXCEPT ![k] = Link("threw", "", Undefined, "none")]
                       /\ UNCHANGED <<wait, ok, cbCalls>>
                  ELSE IF Len(fields.rows) > 0
                       THEN alterTableCall(k, fields, result, FALSE)
                       ELSE createTableCall(k)
             ELSE createTableCall(k)
        ELSE alterTableCall(k, fields, result, TRUE)

\* the callback query hands (err, result) to, by the stage of model k
callback(k, err, result) ==
    CASE chain[k].stage = "fields"  -> fieldsCallback(k, result)
      [] chain[k].stage = "indexes" -> indexesCallback(k, err, result)
      [] OTHER -> done(k, Link("done", "", Undefined, chain[k].diff), "undefined")

\* autoupdate(cb): the forEach counts every model and issues its SHOW FIELDS
Autoupdate ==
    /\ op = "none"
    /\ op' = "autoupdate"
    /\ wait' = Cardinality(registered)
    /\ chain' = [k \in registered |-> Link("fields", "pool", Undefined, "none")]
    /\ UNCHANGED <<registered, ok, cbCalls, ddl, diffVars, opVars>>

\* isActual(cb)
IsActual ==
    /\ op = "none"
    /\ op' = "isActual"
    /\ ok' = "false"
    /\ wait' = Cardinality(registered)
    /\ chain' = [k \in registered |-> Link("fields", "pool", Undefined, "none")]
    /\ UNCHANGED <<registered, cbCalls, ddl, diffVars, opVars>>

\* query: the pool grants a connection and connection.query sends the statement
SyncGetConnection(k) ==
    /\ chain[k].q = "pool"
    /\ chain' = [chain EXCEPT ![k].q = "stmt"]
    /\ ddl' = IF chain[k].stage \in {"alter", "create"}
              THEN ddl \cup {<<k, chain[k].stage>>} ELSE ddl
    /\ UNCHANGED <<op, registered, wait, ok, cbCalls, diffVars, opVars>>

\* query: the pool fails, callback(poolErr)
SyncPoolError(k) ==
    /\ chain[k].q = "pool"
    /\ callback(k, "poolErr", Undefined)
    /\ UNCHANGED <<op, registered, ddl, diffVars, opVars>>

\* query: the statement fails, connection.end(); callback(err, undefined)
SyncStatementError(k) ==
    /\ chain[k].q = "stmt"
    /\ callback(k, "stmtErr", Undefined)
    /\ UNCHANGED <<op, registered, ddl, diffVars, opVars>>

\* query: the statement succeeds, connection.end(); callback(null, data)
SyncStatementDone(k) ==
    /\ chain[k].q = "stmt"
    /\ \E result \in Results(chain[k].stage) : callback(k, "null", result)
    /\ UNCHANGED <<op, registered, ddl, diffVars, opVars>>

NextSync ==
    \/ Autoupdate
    \/ IsActual
    \/ \E k \in registered : SyncGetConnection(k)
    \/ \E k \in registered : SyncPoolError(k)
    \/ \E k \in registered : SyncStatementError(k)
    \/ \E k \in registered : SyncStatementDone(k)

SpecSync == InitSync /\ [][NextSync]_vars

\* every callback the driver owes is eventually run
FairSpecSync == SpecSync /\ WF_vars(NextSync)

-----------------------------------------------------------------------------
(* C3, C4, C10: properties of the synchronisation *)

Settled(k) == chain[k].stage \in {"done", "threw"}

\* C3: a call of autoupdate(cb) or isActual(cb) eventually invokes cb, whatever
\* the registered models and the outcomes of their queries.
C3_CallbackEventuallyFires == (op # "none") ~> (Len(cbCalls) >= 1)

\* C4: cb is invoked at most once, and when it has been invoked every
\* registered model's sequence has called done: none has outstanding work.
C4_OnceAfterAll ==
    /\ Len(cbCalls) <= 1
    /\ Len(cbCalls) = 1 => \A k \in registered : chain[k].stage = "done"

\* two models, whose query completions interleaved, and cb has fired
C4_Witness ==
    /\ Cardinality(registered) >= 2
    /\ Len(cbCalls) = 1
    /\ \A k \in registered : chain[k].stage = "done"
    /\ \E j, k \in registered : chain[j].diff = "empty" /\ chain[k].diff = "nonempty"

\* C10: isActual sends no ALTER TABLE and no CREATE TABLE, and the boolean it
\* passes to cb is true exactly when every registered model's diff is empty.
C10_CheckOnly ==
    op = "isActual" =>
        /\ ddl = {}
        /\ \A i \in 1..Len(cbCalls) :
              cbCalls[i].res = IF \A k \in registered : chain[k].diff = "empty"
                               THEN "true" ELSE "false"

\* isActual answered false for two models of which one is in sync
C10_Witness ==
    /\ op = "isActual"
    /\ Len(cbCalls) = 1
    /\ cbCalls[1].res = "false"
    /\ \E j, k \in registered : chain[j].diff = "empty" /\ chain[k].diff = "nonempty"

-----------------------------------------------------------------------------
(* Statement builders: toFields / create, updateOrCreate, all *)

\* the model the statement builders serve: this._models[model].properties,
\* with old a property that was disabled
OpsSchema ==
    [properties |->
        [name   |-> Prop("String", 0, FALSE, NoIndex),
         age    |-> Prop("Number", 0, FALSE, NoIndex),
         active |-> Prop("Boolean", 0, FALSE, NoIndex),
         born   |-> Prop("Date", 0, FALSE, NoIndex),
         old    |-> PropOff],
     indexes |-> <<>>]

\* props[key], a falsy value when the model has no such property
propOf(key) ==
    IF key \in DOMAIN model.properties THEN model.properties[key] ELSE PropOff

\* the backtick, the identifier quote, as a piece of a text
BQ == "<bq>"

\* the pieces of a key: a dotted key has its dot as a piece
keyText(key) == IF key = "t.age" THEN <<"t", ".", "age">> ELSE <<key>>

\* '`' + key.replace(/\./g, '`.`') + '`'
escapeName(key) ==
    <<BQ>> \o Concat([i \in 1..Len(keyText(key)) |->
                        IF keyText(key)[i] = "." THEN <<BQ, ".", BQ>>
                        ELSE <<keyText(key)[i]>>]) \o <<BQ>>

\* this.tableEscaped(model)
tableEscaped == <<BQ, "t", BQ>>

\* toFields(model, data)
toFields(d) ==
    LET field(e) ==
            IF propOf(e.key).on
            THEN LET value == toDatabase(propOf(e.key), e.val).ret
                 IN  IF value.t = "undefined" THEN <<>>
                     ELSE <<escapeName(e.key) \o <<" = ">> \o toString(value)>>
            ELSE <<>>
    IN  join(Concat([i \in 1..Len(d) |-> field(d[i])]), ",")

\* the statement of create(model, data, callback)
createSql(d) ==
    <<"INSERT INTO ">> \o tableEscaped
    \o (IF toFields(d) # <<>> THEN <<" SET ">> \o toFields(d) ELSE <<" VALUES ()">>)

\* the test of updateOrCreate's loop: the key enters the statement
upsertKeeps(e) == propOf(e.key).on \/ e.key = "id"

\* fieldsNames, fieldValues and combined of updateOrCreate(model, data, callback)
upsertParts(d) ==
    LET kept == SelectSeq(d, upsertKeeps)
        v(e) == IF e.key # "id" THEN toDatabase(propOf(e.key), e.val).ret ELSE e.val
        k(e) == <<BQ, e.key, BQ>>
        upd == SelectSeq(kept, LAMBDA e : e.key # "id")
    IN  [names    |-> [i \in 1..Len(kept) |-> k(kept[i])],
         values   |-> [i \in 1..Len(kept) |-> v(kept[i])],
         combined |-> [i \in 1..Len(upd) |-> k(upd[i]) \o <<" = ">> \o toString(v(upd[i]))]]

\* the statement of updateOrCreate; an undefined element joins as ''
upsertSql(d) ==
    LET p == upsertParts(d)
    IN  <<"INSERT INTO ">> \o tableEscaped
        \o <<" (">> \o join(p.names, ", ") \o <<")">>
        \o <<" VALUES (">> \o toString(Arr(p.values)) \o <<")">>
        \o <<" ON DUPLICATE KEY UPDATE ">> \o join(p.combined, ", ")

\* the operator text the switch of buildWhere appends
condText(cond) ==
    CASE cond.op = "gt"      -> <<" > ">>
      [] cond.op = "gte"     -> <<" >= ">>
      [] cond.op = "lt"      -> <<" < ">>
      [] cond.op = "lte"     -> <<" <= ">>
      [] cond.op = "between" -> <<" BETWEEN ">>
      [] cond.op = "inq"     -> <<" IN ">>
      [] cond.op = "nin"     -> <<" NOT IN ">>
      [] cond.op = "neq"     -> <<" != ">>
      [] cond.op = "like"    -> <<" LIKE ">>
      [] cond.op = "custom"  -> toString(cond.arr[1])
      [] OTHER               -> <<>>

\* val.length == 0 on what toDatabase returned
emptyLength(val) == val.t \in {"str", "array"} /\ toString(val) = <<>> /\ val.arr = <<>>

\* the two constants exchanged
emptyListClauseSwapped(condType) == IF condType = "inq" THEN <<"1">> ELSE <<"0">>

\* the constant clause of an inq / nin whose operand list is empty
emptyListClause(condType) == IF condType = "inq" THEN <<"0">> ELSE <<"1">>

\* buildWhere: the clause one key of conds pushes on cs
whereClause(e) ==
    LET val == toDatabase(propOf(e.key), e.val).ret
        keyEscaped == escapeName(e.key)
    IN  IF e.val.t \in {"null", "undefined"} THEN keyEscaped \o <<" IS NULL">>
        ELSE IF e.val.t = "obj"
        THEN LET condType == e.val.op
                 sqlCond == IF condType = "custom" THEN <<>> ELSE keyEscaped
             IN  IF condType \in {"inq", "nin"} /\ emptyLength(val)
                 THEN emptyListClause(condType)
                 ELSE sqlCond \o condText(e.val)
                      \o (IF condType \in {"inq", "nin"}
                          THEN <<"(">> \o toString(val) \o <<")">>
                          ELSE IF condType # "custom" THEN toString(val) ELSE <<>>)
        ELSE keyEscaped \o <<" = ">> \o toString(val)

\* cs of buildWhere(conds)
whereClauses(conds) == [i \in 1..Len(conds) |-> whereClause(conds[i])]

\* buildWhere(conds)
buildWhere(conds) ==
    IF Len(whereClauses(conds)) = 0 THEN <<>>
    ELSE <<"WHERE ">> \o join(whereClauses(conds), " AND ")

\* conds as buildWhere leaves it: toDatabase has worked on every conds[key]
condsAfter(conds) ==
    [i \in 1..Len(conds) |-> Entry(conds[i].key, toDatabase(propOf(conds[i].key), conds[i].val).arg)]

\* buildOrderBy(order); an item is its pieces, a blank being " "
buildOrderBy(order) ==
    LET one(o) == LET t == SelectSeq(o, LAMBDA x : x # " ")
                  IN  IF Len(t) = 1 THEN <<BQ>> \o o \o <<BQ>>
                      ELSE <<BQ, t[1], BQ, " ", t[2]>>
    IN  <<"ORDER BY ">> \o join([i \in 1..Len(order.items) |-> one(order.items[i])], ", ")

\* buildLimit(limit, offset)
buildLimit(limit, offset) ==
    <<"LIMIT ">> \o (IF truthy(offset) THEN toString(offset) \o <<", ">> \o toString(limit)
                     ELSE toString(limit))

\* the sql of all(model, filter, callback)
allSql(f) ==
    <<"SELECT * FROM ">> \o tableEscaped
    \o (IF f.def /\ f.where.def THEN <<" ">> \o buildWhere(f.where.conds) ELSE <<>>)
    \o (IF f.def /\ f.order.def THEN <<" ">> \o buildOrderBy(f.order) ELSE <<>>)
    \o (IF f.def /\ truthy(f.limit)
        THEN <<" ">> \o buildLimit(f.limit, IF truthy(f.skip) THEN f.skip ELSE Num("0"))
        ELSE <<>>)

\* the filter object as all() leaves it
filterAfter(f) ==
    IF f.def /\ f.where.def THEN [f EXCEPT !.where.conds = condsAfter(@)] ELSE f

-----------------------------------------------------------------------------
(* The executor and the adapter calls.  pool.getConnection and
   connection.query call back later, one callback at a time. *)

NoParts == [names |-> <<>>, values |-> <<>>, combined |-> <<>>, cs |-> <<>>]

\* a call as it is made: its statement is built and query has asked the pool
\* for a connection
Call(api, cbFn, sql, f, d, parts) ==
    [api |-> api, cbFn |-> cbFn, pc |-> "pool", conn |-> FALSE, ended |-> 0,
     sent |-> FALSE, raised |-> "none", cbs |-> 0, cbErr |-> "none", cbRes |-> "none",
     sql |-> sql, filter |-> f, data |-> d, parts |-> parts]

\* this.query(sql, callback) called by the host, with or without a function
Query(cbFn) ==
    /\ Len(calls) < MaxCalls
    /\ calls' = Append(calls, Call("query", cbFn, <<"SELECT 1">>, NoFilter, <<>>, NoParts))
    /\ UNCHANGED <<filter, data, diffVars, syncVars>>

\* create(model, data, callback)
Create ==
    /\ Len(calls) < MaxCalls
    /\ calls' = Append(calls, Call("create", TRUE, createSql(data), NoFilter, data, NoParts))
    /\ UNCHANGED <<filter, data, diffVars, syncVars>>

\* updateOrCreate(model, data, callback)
UpdateOrCreate ==
    /\ Len(calls) < MaxCalls
    /\ calls' = Append(calls, Call("updateOrCreate", TRUE, upsertSql(data), NoFilter, data,
                                   [NoParts EXCEPT !.names = upsertParts(data).names,
                                                   !.values = upsertParts(data).values,
                                                   !.combined = upsertParts(data).combined]))
    /\ UNCHANGED <<filter, data, diffVars, syncVars>>

\* all(model, filter, callback): the sql is built, which works on the filter
\* object, and queried
All ==
    /\ Len(calls) < MaxCalls
    /\ calls' = Append(calls, Call("all", TRUE, allSql(filter), filter, <<>>,
                                   [NoParts EXCEPT !.cs =
                                       IF filter.def /\ filter.where.def
                                       THEN whereClauses(filter.where.conds) ELSE <<>>]))
    /\ filter' = filterAfter(filter)
    /\ UNCHANGED <<data, diffVars, syncVars>>

\* data.id = info.insertId
withId(d, id) ==
    IF \E i \in 1..Len(d) : d[i].key = "id"
    THEN [i \in 1..Len(d) |-> IF d[i].key = "id" THEN Entry("id", Num(id)) ELSE d[i]]
    ELSE Append(d, Entry("id", Num(id)))

\* all() answering callback(err) on an error, without the empty sequence
hostResultBare(api, err, insertId) ==
    CASE api = "create"         -> IF err = "null" THEN insertId ELSE "undefined"
      [] api = "updateOrCreate" -> "data"
      [] api = "all"            -> IF err # "null" THEN "undefined" ELSE "objs"
      [] OTHER                  -> IF err = "null" THEN "rows" ELSE "undefined"

\* what the callback of query passes on to the host's callback as its second
\* argument, by the api that issued the query
hostResult(api, err, insertId) ==
    CASE api = "create"         -> IF err = "null" THEN insertId ELSE "undefined"
      [] api = "updateOrCreate" -> "data"
      [] api = "all"            -> IF err # "null" THEN "[]" ELSE "objs"
      [] OTHER                  -> IF err = "null" THEN "rows" ELSE "undefined"

\* the error the host's callback receives for the error query reported
hostError(api, err) == err

\* callback(err, data) of query for call i, c being the call as query leaves it
queryCallback(i, c, err, insertId) ==
    /\ calls' = [calls EXCEPT ![i] =
                    [c EXCEPT !.pc = "done", !.cbs = @ + 1,
                              !.cbErr = hostError(c.api, err),
                              !.cbRes = hostResult(c.api, err, insertId)]]
    /\ data' = IF c.api = "updateOrCreate" /\ err = "null" /\ insertId # "0"
               THEN withId(data, insertId) ELSE data

\* the callback check of query, line 48: TRUE when it throws
throwsOnCallback(c) == ~c.cbFn

\* query: the pool grants a connection; the callback is checked, then the
\* statement is sent
GetConnection(i) ==
    /\ calls[i].pc = "pool"
    /\ calls' = [calls EXCEPT ![i] =
                    IF throwsOnCallback(@)
                    THEN [@ EXCEPT !.pc = "threw", !.conn = TRUE]
                    ELSE [@ EXCEPT !.pc = "stmt", !.conn = TRUE, !.sent = TRUE]]
    /\ UNCHANGED <<filter, data, diffVars, syncVars>>

PoolErrors == {"ER_POOL"}

StatementErrors == {"ER_PARSE", "ER_DUP_ENTRY"}

\* query: the pool fails; callback(poolErr), which throws a TypeError when
\* callback is no function
PoolError(i) ==
    /\ calls[i].pc = "pool"
    /\ \E e \in PoolErrors :
          IF calls[i].cbFn
          THEN queryCallback(i, [calls[i] EXCEPT !.raised = e], e, "0")
          ELSE /\ calls' = [calls EXCEPT ![i].pc = "threw", ![i].raised = e]
               /\ UNCHANGED data
    /\ UNCHANGED <<filter, diffVars, syncVars>>

\* query: the statement fails; connection.end(); callback(err, data)
StatementError(i) ==
    /\ calls[i].pc = "stmt"
    /\ \E e \in StatementErrors :
          queryCallback(i, [calls[i] EXCEPT !.raised = e, !.ended = @ + 1], e, "0")
    /\ UNCHANGED <<filter, diffVars, syncVars>>

InsertIds(api) == IF api \in {"create", "updateOrCreate"} THEN {"0", "7"} ELSE {"0"}

\* query: the statement succeeds; connection.end(); callback(err, data)
StatementDone(i) ==
    /\ calls[i].pc = "stmt"
    /\ \E id \in InsertIds(calls[i].api) :
          queryCallback(i, [calls[i] EXCEPT !.ended = @ + 1], "null", id)
    /\ UNCHANGED <<filter, diffVars, syncVars>>

\* the filter and the data object the host uses with the executor
HostFilter ==
    Filter(Conds(<<Entry("name", OpObj("inq", Arr(<<Str(<<"a">>)>>)))>>),
           NoOrder, JsUndefined, JsUndefined)

HostData == <<Entry("name", Str(<<"a">>))>>

Init ==
    /\ model = OpsSchema
    /\ live = [fields |-> <<>>, indexes |-> <<>>]
    /\ liveBefore = live
    /\ emitted = <<>>
    /\ SyncIdle
    /\ filter = HostFilter
    /\ data = HostData
    /\ calls = <<>>

Next ==
    \/ \E cbFn \in BOOLEAN : Query(cbFn)
    \/ Create
    \/ UpdateOrCreate
    \/ All
    \/ \E i \in 1..Len(calls) : GetConnection(i)
    \/ \E i \in 1..Len(calls) : PoolError(i)
    \/ \E i \in 1..Len(calls) : StatementError(i)
    \/ \E i \in 1..Len(calls) : StatementDone(i)

Spec == Init /\ [][Next]_vars

-----------------------------------------------------------------------------
(* C5, C6: properties of the executor *)

Quiet == \A i \in 1..Len(calls) : calls[i].pc \in {"done", "threw"}

\* C5: every connection the pool granted is released exactly once; once all
\* calls have completed none remains borrowed.
C5_ConnectionsReleased ==
    /\ \A i \in 1..Len(calls) : calls[i].ended <= 1
    /\ Quiet => \A i \in 1..Len(calls) : calls[i].conn => calls[i].ended = 1

\* C6: a pool failure reaches the callback as that pool error and no statement
\* is sent; a statement failure reaches the callback as that error; all()
\* passes the error with an empty result sequence.
C6_ErrorsSurface ==
    \A i \in 1..Len(calls) :
        LET c == calls[i]
        IN  /\ (c.raised \in PoolErrors /\ c.cbFn) =>
                  c.pc = "done" /\ c.cbs = 1 /\ c.cbErr = c.raised /\ ~c.sent
            /\ c.raised \in StatementErrors =>
                  c.pc = "done" /\ c.cbs = 1 /\ c.cbErr = c.raised
            /\ (c.api = "all" /\ c.raised # "none") => c.cbRes = "[]"

\* an all() whose pool failed and another whose statement failed, both reported
C6_Witness ==
    \E i, j \in 1..Len(calls) :
        /\ calls[i].api = "all" /\ calls[i].raised \in PoolErrors /\ calls[i].cbs = 1
        /\ calls[j].raised \in StatementErrors /\ calls[j].cbs = 1

-----------------------------------------------------------------------------
(* The statement builders over many filters and data objects *)

NameConds ==
    {JsNull, Str(<<"a", "'">>),
     OpObj("inq", Arr(<<>>)), OpObj("nin", Arr(<<>>)),
     OpObj("inq", Arr(<<Str(<<"a">>)>>)),
     OpObj("nin", Arr(<<Str(<<"a", "'">>), Str(<<"b">>)>>)),
     OpObj("like", Str(<<"a", "%">>)), OpObj("neq", Str(<<"b">>)),
     OpObj("custom", Str(<<"name IS NOT NULL">>))}

AgeConds ==
    {Num("5"), OpObj("gt", Num("5")), OpObj("lte", Num("7")),
     OpObj("between", Arr(<<Num("1"), Num("5")>>)),
     OpObj("inq", Arr(<<Num("1"), Str(<<"b">>)>>)),
     OpObj("nin", Arr(<<>>))}

\* the where objects: up to two keys, in either insertion order
WhereObjects ==
    {<<>>}
    \cup {<<Entry("name", c)>> : c \in NameConds}
    \cup {<<Entry("age", c)>> : c \in AgeConds}
    \cup {<<Entry("t.age", Num("5"))>>}
    \cup {<<Entry("name", c), Entry("age", d)>> :
            c \in {OpObj("inq", Arr(<<>>)), OpObj("inq", Arr(<<Str(<<"a">>)>>))},
            d \in AgeConds}
    \cup {<<Entry("age", OpObj("nin", Arr(<<Num("1"), Str(<<"b">>)>>))),
            Entry("name", OpObj("inq", Arr(<<>>)))>>}

SqlFilters ==
    {Filter(Conds(w), NoOrder, JsUndefined, JsUndefined) : w \in WhereObjects}
    \cup {NoFilter,
          Filter(NoConds, [def |-> TRUE, isString |-> TRUE, items |-> <<<<"name">>>>],
                 Num("10"), JsUndefined),
          Filter(Conds(<<Entry("name", OpObj("nin", Arr(<<Str(<<"a">>)>>)))>>),
                 [def |-> TRUE, isString |-> FALSE,
                  items |-> <<<<"name", " ", "DESC">>, <<"age">>>>],
                 Num("10"), Num("5"))}

SqlData ==
    {<<>>,
     <<Entry("name", Str(<<"a", "'">>))>>,
     <<Entry("name", JsUndefined)>>,
     <<Entry("name", JsNull)>>,
     <<Entry("age", Str(<<"5">>)), Entry("name", Str(<<"a">>))>>,
     <<Entry("id", Num("7")), Entry("name", Str(<<"a">>))>>,
     <<Entry("id", Num("7"))>>,
     <<Entry("bogus", Str(<<"x">>))>>,
     <<Entry("name", Str(<<"a">>)), Entry("bogus", Str(<<"x">>))>>,
     <<Entry("old", Str(<<"x">>))>>,
     <<Entry("active", Bool("true")), Entry("age", JsUndefined)>>,
     <<Entry("born", DateVal(<<"2013", "5", "17", "0", "4", "59">>))>>}

InitSql ==
    /\ model = OpsSchema
    /\ live = [fields |-> <<>>, indexes |-> <<>>]
    /\ liveBefore = live
    /\ emitted = <<>>
    /\ SyncIdle
    /\ \/ filter \in SqlFilters /\ data = HostData
       \/ filter = HostFilter /\ data \in SqlData
    /\ calls = <<>>

NextSql ==
    \/ Create
    \/ UpdateOrCreate
    \/ All
    \/ \E i \in 1..Len(calls) : GetConnection(i)
    \/ \E i \in 1..Len(calls) : PoolError(i)
    \/ \E i \in 1..Len(calls) : StatementError(i)
    \/ \E i \in 1..Len(calls) : StatementDone(i)

SpecSql == InitSql /\ [][NextSql]_vars

-----------------------------------------------------------------------------
(* C7, C8, C9: properties of the statement builders *)

\* C7: all() leaves the filter it is given unchanged, so that two calls with
\* the same filter object build the same SQL text.
C7_FilterUnchanged ==
    \A i \in 1..Len(calls) :
        calls[i].api = "all" =>
            /\ filter = calls[i].filter
            /\ \A j \in 1..Len(calls) : calls[j].api = "all" => calls[j].sql = calls[i].sql

IsList(cond) == cond.t = "obj" /\ cond.op \in {"inq", "nin"} /\ cond.arr[1].t = "array"

\* the clause C8 states for an inq / nin condition on a sequence
ListClause(e) ==
    LET elems == e.val.arr[1].arr
    IN  IF elems = <<>> THEN IF e.val.op = "inq" THEN <<"0">> ELSE <<"1">>
        ELSE escapeName(e.key)
             \o <<IF e.val.op = "inq" THEN " IN " ELSE " NOT IN ", "(">>
             \o join([k \in 1..Len(elems) |-> escape(elems[k]).s], ",")
             \o <<")">>

\* the text C8 states for the clauses cs
WhereText(cs) == IF cs = <<>> THEN <<>> ELSE <<"WHERE ">> \o join(cs, " AND ")

\* C8: in the where-clause of all(), an empty inq is the clause 0 and an empty
\* nin the clause 1, a non-empty one is the escaped field, IN or NOT IN and
\* one encoded element per operand element in parentheses; the clauses are
\* joined by AND and no clause gives the empty string.
C8_ListClauses ==
    \A i \in 1..Len(calls) :
        LET c == calls[i]
            conds == c.filter.where.conds
            text == <<"SELECT * FROM ">> \o tableEscaped \o <<" ">> \o WhereText(c.parts.cs)
        IN  (c.api = "all" /\ c.filter.def /\ c.filter.where.def) =>
                /\ Len(c.parts.cs) = Len(conds)
                /\ \A k \in 1..Len(conds) :
                      IsList(conds[k].val) => c.parts.cs[k] = ListClause(conds[k])
                /\ Len(c.sql) >= Len(text)
                /\ SubSeq(c.sql, 1, Len(text)) = text

\* an all() on an empty list joined by AND with a list of two elements
C8_Witness ==
    \E i \in 1..Len(calls) :
        LET conds == calls[i].filter.where.conds
        IN  /\ calls[i].api = "all" /\ Len(conds) = 2
            /\ \E k \in 1..2 : IsList(conds[k].val) /\ conds[k].val.arr[1].arr = <<>>
            /\ \E k \in 1..2 : IsList(conds[k].val) /\ Len(conds[k].val.arr[1].arr) = 2

\* the keys of a data object a statement is to name: properties of the model
\* (or the primary key), with a defined value
Named(d) ==
    SelectSeq(d, LAMBDA e : (propOf(e.key).on \/ e.key = "id") /\ e.val.t # "undefined")

Pieces(text) == {text[k] : k \in 1..Len(text)}

\* C9: a statement built from a data object omits every key whose value is
\* undefined or that is no property of the model; an upsert's column list,
\* value list and update list name the same fields with one defined literal
\* each, id never being updated; a create with no field left is
\* INSERT INTO t VALUES ().
C9_UndefinedOmitted ==
    \A i \in 1..Len(calls) :
        LET c == calls[i]
            named == Named(c.data)
            upd == SelectSeq(named, LAMBDA e : e.key # "id")
        IN  /\ c.api = "updateOrCreate" =>
                /\ c.parts.names = [k \in 1..Len(named) |-> <<BQ, named[k].key, BQ>>]
                /\ Len(c.parts.values) = Len(named)
                /\ \A k \in 1..Len(c.parts.values) : c.parts.values[k].t # "undefined"
                /\ Len(c.parts.combined) = Len(upd)
                /\ \A k \in 1..Len(upd) :
                      SubSeq(c.parts.combined[k], 1, 3) = <<BQ, upd[k].key, BQ>>
            /\ c.api = "create" =>
                /\ \A k \in 1..Len(c.data) :
                      (~propOf(c.data[k].key).on \/ c.data[k].val.t = "undefined")
                          => c.data[k].key \notin Pieces(c.sql)
                /\ (\A k \in 1..Len(c.data) :
                      ~propOf(c.data[k].key).on \/ c.data[k].val.t = "undefined")
                          => c.sql = <<"INSERT INTO ">> \o tableEscaped \o <<" VALUES ()">>

====
